---------------------------- MODULE Spec2Model ----------------------------
(***************************************************************************)
(* Model of korean_font_app.py: the Korean font resolver                   *)
(* (setup_korean_font, memoized by st.cache_resource) and the script body  *)
(* (main) that Streamlit re-executes on every user interaction.            *)
(*                                                                         *)
(* Hangul literals of the source are written in ASCII here:                *)
(*   regions  Seoul Busan Daegu Incheon Gwangju Daejeon Ulsan Sejong       *)
(*   charts   bar line pie heatmap scatter                                 *)
(* Font names are atomic values; None is the Python None.                  *)
(***************************************************************************)
EXTENDS Integers, Sequences, FiniteSets, TLC

(* ------------------------------ bounds --------------------------------- *)

\* largest number of distinct family names in fm.fontManager.ttflist
MaxInstalled == 2
\* largest number of executions of the script body in one process
MaxRuns == 2
\* largest number of direct (uncached) executions of the resolver body
MaxCalls == 2

(* ------------------------- values of the program ----------------------- *)

None == "None"

\* platform.system() values; anything but Windows/Darwin takes the else branch
Systems == {"Windows", "Darwin", "Linux", "FreeBSD"}

WindowsFonts == <<"Malgun Gothic", "Microsoft YaHei", "SimHei">>
DarwinFonts == <<"AppleGothic", "Apple SD Gothic Neo", "Noto Sans CJK KR">>
LinuxFonts == <<"Noto Sans CJK KR", "DejaVu Sans", "Liberation Sans">>

\* family names a host may have installed: every candidate, a name that is
\* no candidate, and a name that only contains a candidate as a substring
FontNames ==
    {"Malgun Gothic", "Microsoft YaHei", "SimHei", "AppleGothic",
     "Apple SD Gothic Neo", "Noto Sans CJK KR", "DejaVu Sans",
     "Liberation Sans", "Helvetica", "Malgun Gothic Semilight"}

\* family names a file NotoSansKR-Regular.ttf may carry in its metadata
BundledNames == {"Noto Sans KR", "Nanum Gothic"}

\* the states of the file at font_path
FontFiles ==
    [kind : {"missing", "unreadable", "malformed"}, family_name : {None}]
      \cup [kind : {"valid"}, family_name : BundledNames]

\* plt.rcParams as the process finds it (matplotlib defaults, or a
\* matplotlibrc of the host); font.family is stored as a list of names
RcInitial ==
    { [family |-> <<"sans-serif">>, unicode_minus |-> TRUE],
      [family |-> <<"serif">>, unicode_minus |-> FALSE] }

ChartTypes == {"bar", "line", "pie", "heatmap", "scatter"}

Regions ==
    <<"Seoul", "Busan", "Daegu", "Incheon", "Gwangju", "Daejeon", "Ulsan",
      "Sejong">>
Population ==
    <<9720846, 3404423, 2401110, 2947217, 1441970, 1454679, 1124459, 365309>>
\* areas in hundredths of a square kilometre
Area == <<60521, 77018, 88356, 104082, 50131, 53998, 106140, 46523>>
Density == <<16154, 4419, 2716, 2831, 2876, 2694, 1059, 785>>

\* the font family both Plotly figures are laid out with
PlotlyFamily == <<"Malgun Gothic", "AppleGothic", "Noto Sans CJK KR">>

(* --------------------------- pure functions ---------------------------- *)

\* lines 27-35: the candidate list of an operating system
FontCandidates(system) ==
    IF system = "Windows" THEN WindowsFonts
    ELSE IF system = "Darwin" THEN DarwinFonts
    ELSE LinuxFonts

RECURSIVE ScanFrom(_, _, _)
\* lines 40-44: the loop over font_candidates from index i, break on a match
ScanFrom(font_candidates, available_fonts, i) ==
    IF i > Len(font_candidates) THEN None
    ELSE IF font_candidates[i] \in available_fonts THEN font_candidates[i]
    ELSE ScanFrom(font_candidates, available_fonts, i + 1)

RECURSIVE ScanLast(_, _, _)
ScanLast(font_candidates, available_fonts, i) ==
    IF i < 1 THEN None
    ELSE IF font_candidates[i] \in available_fonts THEN font_candidates[i]
    ELSE ScanLast(font_candidates, available_fonts, i - 1)

SelectFont_NoBreak(font_candidates, available_fonts) ==
    ScanLast(font_candidates, available_fonts, Len(font_candidates))
\* lines 40-44: selected_font
SelectFont(font_candidates, available_fonts) ==
    ScanFrom(font_candidates, available_fonts, 1)

\* line 57-58: FontProperties(fname=font_path).get_name(); it raises when
\* the file cannot be opened or parsed
GetName(file) ==
    IF file.kind = "valid"
    THEN [raised |-> FALSE, name |-> file.family_name]
    ELSE [raised |-> TRUE, name |-> None]

ApplyFont_FamilyOnly(rc, name) ==
    [rc EXCEPT !.family = <<name>>]
\* lines 47-48 and 58-59: the two assignments to plt.rcParams; a string
\* assigned to font.family is stored as a one-element list
ApplyFont(rc, name) ==
    [rc EXCEPT !.family = <<name>>, !.unicode_minus = FALSE]

MatchedBranch_NoMinus(rc, selected_font) ==
    [value |-> selected_font,
     messages |-> <<"success_font">>,
     rc |-> [rc EXCEPT !.family = <<selected_font>>],
     written |-> {"font.family"}]
\* lines 46-50: the branch taken when a candidate matched
MatchedBranch(rc, selected_font) ==
    [value |-> selected_font,
     messages |-> <<"success_font">>,
     rc |-> ApplyFont(rc, selected_font),
     written |-> {"font.family", "axes.unicode_minus"}]

FallbackBranch_MinusFirst(rc, file) ==
    LET got == GetName(file) IN
    IF got.raised
    THEN [value |-> None,
          messages |-> <<"warning", "error">>,
          rc |-> [rc EXCEPT !.unicode_minus = FALSE],
          written |-> {"axes.unicode_minus"}]
    ELSE [value |-> got.name,
          messages |-> <<"warning", "success_file">>,
          rc |-> ApplyFont(rc, got.name),
          written |-> {"font.family", "axes.unicode_minus"}]
FallbackBranch_FileName(rc, file) ==
    LET got == GetName(file) IN
    IF got.raised
    THEN [value |-> None,
          messages |-> <<"warning", "error">>,
          rc |-> rc,
          written |-> {}]
    ELSE [value |-> "NotoSansKR-Regular",
          messages |-> <<"warning", "success_file">>,
          rc |-> ApplyFont(rc, "NotoSansKR-Regular"),
          written |-> {"font.family", "axes.unicode_minus"}]
\* lines 51-64: the branch taken when no candidate matched; get_name()
\* is evaluated before the first assignment, so a raise changes nothing
FallbackBranch(rc, file) ==
    LET got == GetName(file) IN
    IF got.raised
    THEN [value |-> None,
          messages |-> <<"warning", "error">>,
          rc |-> rc,
          written |-> {}]
    ELSE [value |-> got.name,
          messages |-> <<"warning", "success_file">>,
          rc |-> ApplyFont(rc, got.name),
          written |-> {"font.family", "axes.unicode_minus"}]

SetupBody_OnlyOnce(sys, available_fonts, file, rc) ==
    LET selected_font == SelectFont(FontCandidates(sys), available_fonts) IN
    IF rc.unicode_minus = FALSE THEN FallbackBranch(rc, [file EXCEPT !.kind = "missing"])
    ELSE IF selected_font # None THEN MatchedBranch(rc, selected_font)
    ELSE FallbackBranch(rc, file)
\* lines 21-64: the body of setup_korean_font as a function of what it
\* reads: the value returned, the messages shown, plt.rcParams afterwards
\* and the rcParams keys it assigned
SetupBody(sys, available_fonts, file, rc) ==
    LET selected_font == SelectFont(FontCandidates(sys), available_fonts) IN
    IF selected_font # None
    THEN MatchedBranch(rc, selected_font)
    ELSE FallbackBranch(rc, file)

RECURSIVE SumFrom(_, _)
SumFrom(s, i) == IF i > Len(s) THEN 0 ELSE s[i] + SumFrom(s, i + 1)
SeqSum_DropLast(s) == SumFrom(SubSeq(s, 1, Len(s) - 1), 1)
\* line 182: df[...].sum()
SeqSum(s) == SumFrom(s, 1)

RECURSIVE Thousands(_)
\* line 182: the format spec "," : the digit groups of n, most significant
\* first
Thousands(n) ==
    IF n < 1000 THEN <<n>> ELSE Append(Thousands(n \div 1000), n % 1000)

RECURSIVE GroupsValue(_)
\* the number a reader takes from digit groups
GroupsValue(g) ==
    IF Len(g) = 0 THEN 0
    ELSE GroupsValue(SubSeq(g, 1, Len(g) - 1)) * 1000 + g[Len(g)]

\* lines 95-166: the matplotlib figure of a chart type; its text is drawn
\* with the font family plt.rcParams holds at that moment
Figure(chart_type, rc) ==
    [lib |-> "matplotlib",
     chart |-> chart_type,
     family |-> rc.family,
     labels |-> IF chart_type = "heatmap"
                THEN <<"population", "area", "density">>
                ELSE Regions,
     values |-> CASE chart_type = "bar" -> Population
                  [] chart_type = "line" -> Density
                  [] chart_type = "pie" -> Population
                  [] chart_type = "scatter" -> Population
                  [] OTHER -> <<>>]

\* lines 196-214: a Plotly figure; update_layout gives it its own family
PlotlyFigure(kind) ==
    [lib |-> "plotly",
     chart |-> kind,
     family |-> PlotlyFamily,
     labels |-> Regions,
     values |-> Population]

(* ------------------------------- state --------------------------------- *)

VARIABLES
    system,      \* platform.system()
    ttflist,     \* the family names of fm.fontManager.ttflist
    fontFile,    \* the file at "NotoSansKR-Regular.ttf"
    rcParams,    \* plt.rcParams: font.family and axes.unicode_minus
    cache,       \* st.cache_resource entry of setup_korean_font: <<>> or <<entry>>
    calls,       \* one record per execution of the body of setup_korean_font
    pc,          \* position of main
    runs,        \* executions of main started so far
    font_name,   \* main's local font_name
    chart_type,  \* main's local chart_type
    ui,          \* elements shown by the current execution, in order
    figs,        \* figures drawn by the current execution, in order
    metric,      \* the "total population" metric: <<>> or its digit groups
    info         \* the font-information expander: <<>> or <<record>>

vars ==
    <<system, ttflist, fontFile, rcParams, cache, calls, pc, runs, font_name,
      chart_type, ui, figs, metric, info>>

host == <<system, ttflist, fontFile>>
page == <<ui, figs, metric, info>>

Init ==
    /\ system \in Systems
    /\ ttflist \in {s \in SUBSET FontNames : Cardinality(s) <= MaxInstalled}
    /\ fontFile \in FontFiles
    /\ rcParams \in RcInitial
    /\ cache = <<>>
    /\ calls = <<>>
    /\ pc = "setup"
    /\ runs = 1
    /\ font_name = None
    /\ chart_type = None
    /\ ui = <<>>
    /\ figs = <<>>
    /\ metric = <<>>
    /\ info = <<>>

(* ------------------------------ actions -------------------------------- *)

\* one execution of the body: its effect on rcParams and its record
BodyRecord(r) ==
    [value |-> r.value, messages |-> r.messages, before |-> rcParams,
     after |-> r.rc, written |-> r.written]

CacheHit_Never == FALSE
\* line 20: st.cache_resource finds an entry for the (argument-less) call
CacheHit == cache # <<>>

Replay_Nothing(entry) == <<>>
\* line 20: on a hit st.cache_resource shows the elements the body showed
Replay(entry) == entry.messages

\* lines 20-21, 68: font_name = setup_korean_font() through the cache
CallSetup ==
    /\ pc = "setup"
    /\ IF CacheHit
       THEN /\ font_name' = cache[1].value
            /\ ui' = ui \o Replay(cache[1])
            /\ UNCHANGED <<rcParams, cache, calls>>
       ELSE LET r == SetupBody(system, ttflist, fontFile, rcParams) IN
            /\ rcParams' = r.rc
            /\ cache' = <<[value |-> r.value, messages |-> r.messages]>>
            /\ calls' = Append(calls, BodyRecord(r))
            /\ font_name' = r.value
            /\ ui' = ui \o r.messages
    /\ pc' = "sidebar"
    /\ UNCHANGED <<host, runs, chart_type, figs, metric, info>>

\* lines 70-78: title, sidebar and the chart type the user has selected
SelectChart ==
    /\ pc = "sidebar"
    /\ \E c \in ChartTypes : chart_type' = c
    /\ ui' = Append(ui, "title")
    /\ pc' = "chart"
    /\ UNCHANGED <<host, rcParams, cache, calls, runs, font_name, figs,
                   metric, info>>

\* lines 92-166: the selected matplotlib chart
DrawChart ==
    /\ pc = "chart"
    /\ figs' = Append(figs, Figure(chart_type, rcParams))
    /\ ui' = Append(ui, "pyplot")
    /\ pc' = "table"
    /\ UNCHANGED <<host, rcParams, cache, calls, runs, font_name, chart_type,
                   metric, info>>

\* lines 168-176: the data table and the text samples
ShowTable ==
    /\ pc = "table"
    /\ ui' = Append(ui, "dataframe")
    /\ pc' = "metrics"
    /\ UNCHANGED <<host, rcParams, cache, calls, runs, font_name, chart_type,
                   figs, metric, info>>

\* lines 179-186: the summary metrics
ShowMetrics ==
    /\ pc = "metrics"
    /\ metric' = Thousands(SeqSum(Population))
    /\ ui' = Append(ui, "metrics")
    /\ pc' = "plotly_bar"
    /\ UNCHANGED <<host, rcParams, cache, calls, runs, font_name, chart_type,
                   figs, info>>

\* lines 194-204: the Plotly bar chart
PlotlyBar ==
    /\ pc = "plotly_bar"
    /\ figs' = Append(figs, PlotlyFigure("plotly_bar"))
    /\ ui' = Append(ui, "plotly_bar")
    /\ pc' = "plotly_donut"
    /\ UNCHANGED <<host, rcParams, cache, calls, runs, font_name, chart_type,
                   metric, info>>

\* lines 206-214: the Plotly donut chart
PlotlyDonut ==
    /\ pc = "plotly_donut"
    /\ figs' = Append(figs, PlotlyFigure("plotly_donut"))
    /\ ui' = Append(ui, "plotly_donut")
    /\ pc' = "expander"
    /\ UNCHANGED <<host, rcParams, cache, calls, runs, font_name, chart_type,
                   metric, info>>

\* lines 216-228: the font-information expander
FontInfo ==
    /\ pc = "expander"
    /\ info' = <<[system |-> system, font_name |-> font_name,
                  family |-> rcParams.family]>>
    /\ ui' = Append(ui, "font_info")
    /\ pc' = "done"
    /\ UNCHANGED <<host, rcParams, cache, calls, runs, font_name, chart_type,
                   figs, metric>>

\* lines 230-231: a user interaction makes Streamlit execute the script
\* again in the same process; the page and main's locals start afresh
Rerun ==
    /\ pc = "done"
    /\ runs < MaxRuns
    /\ runs' = runs + 1
    /\ pc' = "setup"
    /\ font_name' = None
    /\ chart_type' = None
    /\ ui' = <<>>
    /\ figs' = <<>>
    /\ metric' = <<>>
    /\ info' = <<>>
    /\ UNCHANGED <<host, rcParams, cache, calls>>

Next ==
    \/ CallSetup
    \/ SelectChart
    \/ DrawChart
    \/ ShowTable
    \/ ShowMetrics
    \/ PlotlyBar
    \/ PlotlyDonut
    \/ FontInfo
    \/ Rerun

Spec == Init /\ [][Next]_vars

\* lines 21-64: the body of setup_korean_font executed directly, without
\* the cache, on the same host
InvokeBody ==
    /\ Len(calls) < MaxCalls
    /\ LET r == SetupBody(system, ttflist, fontFile, rcParams) IN
       /\ rcParams' = r.rc
       /\ calls' = Append(calls, BodyRecord(r))
       /\ font_name' = r.value
       /\ ui' = ui \o r.messages
    /\ UNCHANGED <<host, cache, pc, runs, chart_type, figs, metric, info>>

NextBody == InvokeBody

SpecBody == Init /\ [][NextBody]_vars

(* ----------------------------- properties ------------------------------ *)

\* the candidate list the specification gives an operating system
ListOf(sys) ==
    CASE sys = "Windows" -> <<"Malgun Gothic", "Microsoft YaHei", "SimHei">>
      [] sys = "Darwin" ->
           <<"AppleGothic", "Apple SD Gothic Neo", "Noto Sans CJK KR">>
      [] OTHER -> <<"Noto Sans CJK KR", "DejaVu Sans", "Liberation Sans">>

\* the indices of the candidates that are installed, by exact name
PresentIn(sys, fonts) ==
    {i \in 1..Len(ListOf(sys)) : ListOf(sys)[i] \in fonts}

BothKeys == {"font.family", "axes.unicode_minus"}

\* C1: when at least one candidate of the operating system's list is
\* installed, setup_korean_font returns the installed candidate with the
\* smallest list index (Darwin with Apple SD Gothic Neo and Helvetica gives
\* Apple SD Gothic Neo; Windows with Malgun Gothic gives Malgun Gothic).
C1_FirstInstalledCandidate ==
    \A k \in DOMAIN calls :
      /\ PresentIn(system, ttflist) # {} =>
           \E i \in PresentIn(system, ttflist) :
             /\ calls[k].value = ListOf(system)[i]
             /\ \A j \in PresentIn(system, ttflist) : i <= j
      /\ (system = "Darwin" /\ ttflist = {"Apple SD Gothic Neo", "Helvetica"})
           => calls[k].value = "Apple SD Gothic Neo"
      /\ (system = "Windows" /\ ttflist = {"Malgun Gothic"})
           => calls[k].value = "Malgun Gothic"

\* a call where two candidates are installed and the first of the list is not
C1_Witness ==
    /\ Len(calls) = 1
    /\ system = "Darwin"
    /\ ttflist = {"Apple SD Gothic Neo", "Noto Sans CJK KR"}
    /\ calls[1].value = "Apple SD Gothic Neo"

\* C2: when no candidate is installed and the bundled file cannot be
\* loaded, setup_korean_font returns None and plt.rcParams (font family and
\* minus-sign flag) is what it was before the call.
C2_FailureLeavesConfig ==
    \A k \in DOMAIN calls :
      (PresentIn(system, ttflist) = {} /\ fontFile.kind # "valid") =>
        /\ calls[k].value = None
        /\ calls[k].after = calls[k].before
        /\ rcParams = calls[k].before

C2_Witness ==
    /\ Len(calls) = 1
    /\ PresentIn(system, ttflist) = {}
    /\ ttflist = {"Helvetica", "Malgun Gothic Semilight"}
    /\ fontFile.kind = "malformed"
    /\ calls[1].before.unicode_minus = TRUE
    /\ calls[1].value = None

\* C3: when no candidate is installed and the bundled file is valid,
\* setup_korean_font returns the family name embedded in the file and the
\* font family is set to that name; when a candidate is installed the
\* fallback path is not taken.
C3_FallbackUsesEmbeddedName ==
    \A k \in DOMAIN calls :
      /\ (PresentIn(system, ttflist) = {} /\ fontFile.kind = "valid") =>
           /\ calls[k].value = fontFile.family_name
           /\ calls[k].after.family = <<fontFile.family_name>>
           /\ rcParams.family = <<fontFile.family_name>>
      /\ PresentIn(system, ttflist) # {} =>
           /\ calls[k].messages = <<"success_font">>
           /\ \E i \in PresentIn(system, ttflist) :
                calls[k].value = ListOf(system)[i]

C3_Witness ==
    /\ Len(calls) = 1
    /\ PresentIn(system, ttflist) = {}
    /\ fontFile = [kind |-> "valid", family_name |-> "Noto Sans KR"]
    /\ calls[1].value = "Noto Sans KR"
    /\ calls[1].messages = <<"warning", "success_file">>

\* the three outcomes of a call, told apart by the value and the messages
IsSuccess(c) == c.value # None /\ c.messages = <<"success_font">>
IsFallback(c) == c.value # None /\ c.messages = <<"warning", "success_file">>
IsFailure(c) == c.value = None /\ c.messages = <<"warning", "error">>

\* C4: every call ends in exactly one of success, fallback-success and
\* failure, and in every state after a success or fallback-success the
\* minus-sign flag axes.unicode_minus is False.
C4_OutcomeAndMinusFlag ==
    \A k \in DOMAIN calls :
      /\ Cardinality({o \in {"success", "fallback", "failure"} :
                        \/ o = "success" /\ IsSuccess(calls[k])
                        \/ o = "fallback" /\ IsFallback(calls[k])
                        \/ o = "failure" /\ IsFailure(calls[k])}) = 1
      /\ (IsSuccess(calls[k]) \/ IsFallback(calls[k])) =>
           rcParams.unicode_minus = FALSE

\* a later execution of main after a success that had to clear the flag
C4_Witness ==
    /\ runs = 2
    /\ pc = "done"
    /\ Len(calls) = 1
    /\ IsSuccess(calls[1])
    /\ calls[1].before.unicode_minus = TRUE

\* C5: over all executions of main in one process the body of
\* setup_korean_font runs at most once; every execution gets the memoized
\* value, None included.
C5_BodyRunsAtMostOnce ==
    /\ Len(calls) <= 1
    /\ pc # "setup" =>
         /\ Len(calls) = 1
         /\ cache # <<>>
         /\ font_name = cache[1].value
         /\ font_name = calls[1].value

\* a second execution that received a memoized failure
C5_Witness ==
    /\ runs = 2
    /\ pc = "sidebar"
    /\ Len(calls) = 1
    /\ font_name = None

\* C6: the resolver has run before any chart is drawn, and every figure
\* drawn (the selected matplotlib chart, the Plotly bar chart, the Plotly
\* donut chart) uses the font family plt.rcParams holds.
C6_ChartsUseConfiguredFamily ==
    /\ figs # <<>> => cache # <<>>
    /\ \A i \in DOMAIN figs : figs[i].family = rcParams.family

\* C7: executing the resolver body again on the same host returns the same
\* value and leaves plt.rcParams as the first execution left it.
C7_Idempotent ==
    \A i \in DOMAIN calls : \A j \in DOMAIN calls :
      /\ calls[i].value = calls[j].value
      /\ calls[i].after = calls[j].after
      /\ rcParams = calls[1].after

\* two executions that resolved a font, the first of which changed rcParams
C7_Witness ==
    /\ Len(calls) = 2
    /\ calls[2].value # None
    /\ calls[1].before # calls[1].after

\* the sum of the eight wedge values of a pie figure
WedgeSum(f) ==
    f.values[1] + f.values[2] + f.values[3] + f.values[4] + f.values[5]
      + f.values[6] + f.values[7] + f.values[8]

PieShown == pc = "done" /\ chart_type = "pie"

\* C8 as stated: the pie chart has eight labeled wedges whose values sum
\* to the total population metric, and that sum is 24,860,013.
C8_Original ==
    PieShown =>
      /\ Len(figs[1].values) = 8
      /\ Len(figs[1].labels) = 8
      /\ WedgeSum(figs[1]) = GroupsValue(metric)
      /\ WedgeSum(figs[1]) = 24860013

\* C8 amended: the pie chart has eight labeled wedges whose values sum to
\* the total population metric, and that sum is 22,860,013.
C8_PieSum ==
    PieShown =>
      /\ figs[1].chart = "pie"
      /\ Len(figs[1].values) = 8
      /\ Len(figs[1].labels) = 8
      /\ Cardinality({figs[1].labels[i] : i \in 1..8}) = 8
      /\ WedgeSum(figs[1]) = GroupsValue(metric)
      /\ WedgeSum(figs[1]) = 22860013
      /\ metric = <<22, 860, 13>>

C8_Witness ==
    /\ PieShown
    /\ figs[1].chart = "pie"
    /\ metric # <<>>

InUi(e) == \E i \in DOMAIN ui : ui[i] = e

\* C9: when resolution fails the warning and the error are shown and main
\* goes on: it can always take its next step, and at its end the selected
\* chart, the table, the metrics, both Plotly charts and the font
\* information (with font None) have been shown.
C9_FailureIsReportedAndMainContinues ==
    (cache # <<>> /\ cache[1].value = None /\ pc # "setup") =>
      /\ InUi("warning") /\ InUi("error")
      /\ pc # "done" => ENABLED Next
      /\ pc = "done" =>
           /\ InUi("pyplot") /\ InUi("dataframe") /\ InUi("metrics")
           /\ InUi("plotly_bar") /\ InUi("plotly_donut") /\ InUi("font_info")
           /\ Len(figs) = 3
           /\ figs[1].chart = chart_type
           /\ info # <<>> /\ info[1].font_name = None

\* a re-execution that ended after a memoized failure
C9_Witness ==
    /\ runs = 2
    /\ pc = "done"
    /\ font_name = None
    /\ cache[1].value = None

\* C10: once the result is memoized, it is a font name exactly when the
\* resolver assigned both settings, the font family then being that name
\* and the minus-sign flag False; otherwise the resolver assigned neither.
C10_ResultAgreesWithConfig ==
    cache # <<>> =>
      /\ Len(calls) = 1
      /\ calls[1].value = cache[1].value
      /\ calls[1].written \in {{}, BothKeys}
      /\ cache[1].value # None <=> calls[1].written = BothKeys
      /\ cache[1].value # None =>
           /\ rcParams.family = <<cache[1].value>>
           /\ rcParams.unicode_minus = FALSE
      /\ cache[1].value = None => rcParams = calls[1].before
      /\ pc # "setup" => font_name = cache[1].value
      /\ info # <<>> =>
           /\ info[1].font_name = cache[1].value
           /\ info[1].family = rcParams.family

\* the font information of a re-execution after a success
C10_Witness ==
    /\ runs = 2
    /\ info # <<>>
    /\ cache[1].value # None
    /\ info[1].family = <<cache[1].value>>
    /\ calls[1].before.unicode_minus = TRUE


=============================================================================
